---- MODULE Spec2Model ----
(***************************************************************************)
(* Sort-based aggregate exchange tasks of ray.data:                        *)
(* SortAggregateTaskSpec.map / reduce / _prune_unused_columns              *)
(* (python/ray/data/_internal/planner/exchange/aggregate_task_spec.py).    *)
(*                                                                         *)
(* A block is a record [repr, rows]; rows is a sequence of rows, a row is  *)
(* a function from column names to values.  A key value is a tuple of      *)
(* column values (a 1-tuple for a single key column, the empty tuple when  *)
(* the key is absent); tuples are ordered lexicographically.               *)
(***************************************************************************)
EXTENDS Integers, Sequences, FiniteSets, TLC

\* ------------------------------------------------------------------ bounds
MaxVal == 1
MaxRows == 2
MaxTasks == 2
MaxBounds == 2
MaxClock == 1

\* ------------------------------------------------------------------ data
Columns == {"a", "b"}
Vals == 0..MaxVal
\* The value read from a column a block does not have.
Null == 0 - 1

RowsOver(cols) == [cols -> Vals]

RECURSIVE SeqsUpTo(_, _)
SeqsUpTo(S, n) ==
    IF n = 0 THEN {<<>>}
    ELSE LET shorter == SeqsUpTo(S, n - 1)
         IN  shorter \cup {Append(s, x) : s \in {t \in shorter : Len(t) = n - 1}, x \in S}

\* Block representations: "arrow" and "pandas" are table blocks, "simple" is not.
TableReprs == {"arrow", "pandas"}
InputReprs == {"arrow", "simple"}
BatchFormats == {"pyarrow"}

\* The blocks a map task may be handed: up to MaxRows rows over all the columns.
InputBlocks ==
    {[repr |-> repr, rows |-> rs] :
        repr \in InputReprs, rs \in SeqsUpTo(RowsOver(Columns), MaxRows)}

Get(row, col) == IF col \in DOMAIN row THEN row[col] ELSE Null

\* ------------------------------------------------------------------ keys
KeyNone == [kind |-> "none", cols |-> <<>>]
KeyStr == [kind |-> "str", cols |-> <<"a">>]
KeyList == [kind |-> "list", cols |-> <<"a", "b">>]
\* An opaque row-to-key function; it reads column "b", which only calling it shows.
KeyCallable == [kind |-> "callable", cols |-> <<"b">>]
GroupKeys == {KeyNone, KeyStr, KeyList, KeyCallable}

KeyOf(row, key) == [i \in 1..Len(key.cols) |-> Get(row, key.cols[i])]

RECURSIVE LexLess(_, _)
LexLess(s, t) ==
    IF t = <<>> THEN FALSE
    ELSE IF s = <<>> THEN TRUE
    ELSE IF s[1] # t[1] THEN s[1] < t[1]
    ELSE LexLess(Tail(s), Tail(t))

LexLeq(s, t) == s = t \/ LexLess(s, t)

KeyValues(key) == [1..Len(key.cols) -> Vals]

IsAscending(bs) == \A i \in 1..(Len(bs) - 1) : LexLeq(bs[i], bs[i + 1])

\* The boundary lists of a plan: ascending key values, or plain values when the
\* key is absent (map then never reads them).
BoundaryLists(key) ==
    LET vals == IF key.kind = "none" THEN KeyValues(KeyStr) ELSE KeyValues(key)
    IN  {bs \in SeqsUpTo(vals, MaxBounds) : IsAscending(bs)}

\* ------------------------------------------------------------------ aggregates
\* cls: the Python class the pruner tests; key_fn: _key_fn, a column name or not a
\* string; reads: the column accumulate reads; op: the accumulate/merge/finalize.
Count == [cls |-> "Count", _key_fn |-> "<none>", reads |-> "<none>", op |-> "count"]
SumB == [cls |-> "AggregateOnKey", _key_fn |-> "b", reads |-> "b", op |-> "sum"]
MeanB == [cls |-> "AggregateOnKey", _key_fn |-> "b", reads |-> "b", op |-> "mean"]
SumFn == [cls |-> "AggregateOnKey", _key_fn |-> "<callable>", reads |-> "b", op |-> "sum"]
\* A user-defined AggregateFn that counts rows: it reads no column, and is no Count.
RowCounter == [cls |-> "AggregateFn", _key_fn |-> "<none>", reads |-> "<none>", op |-> "count"]
AggLists == {<<Count>>, <<SumB, Count, MeanB>>, <<SumB, SumFn>>, <<RowCounter>>}

\* A partial state and a finalized value are tuples of numbers: <<n>> for a count or
\* a sum, <<sum, count>> for the partial state of a mean.
AggInit(agg) == IF agg.op = "mean" THEN <<0, 0>> ELSE <<0>>

AggAccumulate(agg, acc, row) ==
    CASE agg.op = "count" -> <<acc[1] + 1>>
      [] agg.op = "sum" -> <<acc[1] + Get(row, agg.reads)>>
      [] agg.op = "mean" -> <<acc[1] + Get(row, agg.reads), acc[2] + 1>>

AggMerge(agg, x, y) == [i \in 1..Len(x) |-> x[i] + y[i]]

\* The mean is kept to one decimal place, as a number of tenths.
AggFinalize(agg, acc) ==
    CASE agg.op = "count" -> acc
      [] agg.op = "sum" -> acc
      [] agg.op = "mean" -> IF acc[2] = 0 THEN <<Null>> ELSE <<(10 * acc[1]) \div acc[2]>>

\* ------------------------------------------------------------------ block capabilities
num_rows(block) == Len(block.rows)

select(block, columns) ==
    [repr |-> block.repr,
     rows |-> [i \in 1..Len(block.rows) |-> [c \in columns |-> Get(block.rows[i], c)]]]

RECURSIVE SumSeq(_)
SumSeq(s) == IF s = <<>> THEN 0 ELSE s[1] + SumSeq(Tail(s))

\* One unit per cell.
size_bytes(block) ==
    SumSeq([i \in 1..Len(block.rows) |-> Cardinality(DOMAIN block.rows[i])])

get_metadata(block, exec_stats) ==
    [num_rows |-> num_rows(block), size_bytes |-> size_bytes(block),
     exec_stats |-> exec_stats]

RECURSIVE InsertSorted(_, _, _)
InsertSorted(row, sorted, key) ==
    IF sorted = <<>> THEN <<row>>
    ELSE IF LexLess(KeyOf(row, key), KeyOf(sorted[1], key)) THEN <<row>> \o sorted
    ELSE <<sorted[1]>> \o InsertSorted(row, Tail(sorted), key)

\* A stable sort by key.
RECURSIVE SortRows(_, _)
SortRows(rows, key) ==
    IF rows = <<>> THEN <<>>
    ELSE InsertSorted(rows[Len(rows)], SortRows(SubSeq(rows, 1, Len(rows) - 1), key), key)

\* Partition i holds the rows with boundaries[i-1] < key <= boundaries[i].
InPartition(i, k, boundaries) ==
    /\ i = 1 \/ LexLess(boundaries[i - 1], k)
    /\ i = Len(boundaries) + 1 \/ LexLeq(k, boundaries[i])

sort_and_partition(block, boundaries, key) ==
    LET sorted == SortRows(block.rows, key)
        Part(i) == SelectSeq(sorted, LAMBDA r : InPartition(i, KeyOf(r, key), boundaries))
    IN  [i \in 1..(Len(boundaries) + 1) |-> [repr |-> block.repr, rows |-> Part(i)]]

RECURSIVE AccumulateRows(_, _, _)
AccumulateRows(agg, acc, rows) ==
    IF rows = <<>> THEN acc
    ELSE AccumulateRows(agg, AggAccumulate(agg, acc, rows[1]), Tail(rows))

\* The length of the run at the head of a sequence of keys that equal the first.
RunLength(ks) ==
    CHOOSE n \in 1..Len(ks) :
        /\ \A j \in 1..n : ks[j] = ks[1]
        /\ n = Len(ks) \/ ks[n + 1] # ks[1]

\* combine's rows: a linear scan, one partial-aggregate row per run of equal keys.
RECURSIVE CombineRows(_, _, _)
CombineRows(rows, key, aggs) ==
    IF rows = <<>> THEN <<>>
    ELSE LET K(r) == KeyOf(r, key)
             n == RunLength([j \in 1..Len(rows) |-> K(rows[j])])
             group == SubSeq(rows, 1, n)
             row == [key |-> K(rows[1]),
                     agg |-> [i \in 1..Len(aggs) |->
                                 AccumulateRows(aggs[i], AggInit(aggs[i]), group)]]
         IN  <<row>> \o CombineRows(SubSeq(rows, n + 1, Len(rows)), key, aggs)

\* With no key the whole block is one group, also when it has no rows, and the row
\* carries no key.
combine(block, key, aggs) ==
    [repr |-> block.repr,
     rows |-> IF key.kind = "none"
              THEN <<[agg |-> [i \in 1..Len(aggs) |->
                                  AccumulateRows(aggs[i], AggInit(aggs[i]), block.rows)]]>>
              ELSE CombineRows(block.rows, key, aggs)]

ReprOf(batch_format) == IF batch_format = "pandas" THEN "pandas" ELSE "arrow"

normalize_block_types(blocks, normalize_type) ==
    [i \in 1..Len(blocks) |-> [repr |-> ReprOf(normalize_type), rows |-> blocks[i].rows]]

\* The key a partial-aggregate row is merged by.
MergeKey(row, key) == IF key.kind = "none" THEN <<>> ELSE row.key

\* The first of the sequences whose head has the least key (the merge is stable).
MergeNext(seqs, key) ==
    CHOOSE i \in 1..Len(seqs) :
        /\ seqs[i] # <<>>
        /\ \A j \in 1..Len(seqs) :
               seqs[j] # <<>> =>
                   /\ LexLeq(MergeKey(seqs[i][1], key), MergeKey(seqs[j][1], key))
                   /\ j < i => LexLess(MergeKey(seqs[i][1], key), MergeKey(seqs[j][1], key))

\* The k-way merge of sorted sequences of rows.
RECURSIVE MergeSorted(_, _)
MergeSorted(seqs, key) ==
    IF \A i \in 1..Len(seqs) : seqs[i] = <<>> THEN <<>>
    ELSE LET i == MergeNext(seqs, key)
         IN  <<seqs[i][1]>> \o MergeSorted([seqs EXCEPT ![i] = Tail(seqs[i])], key)

RECURSIVE MergeStates(_, _, _)
MergeStates(agg, acc, states) ==
    IF states = <<>> THEN acc
    ELSE MergeStates(agg, AggMerge(agg, acc, states[1]), Tail(states))

RECURSIVE MergeRows(_, _, _, _)
MergeRows(rows, key, aggs, finalize) ==
    IF rows = <<>> THEN <<>>
    ELSE LET K(r) == MergeKey(r, key)
             n == RunLength([j \in 1..Len(rows) |-> K(rows[j])])
             acc(i) == MergeStates(aggs[i], rows[1].agg[i],
                                   [j \in 1..(n - 1) |-> rows[j + 1].agg[i]])
             vals == [i \in 1..Len(aggs) |->
                         IF finalize THEN AggFinalize(aggs[i], acc(i)) ELSE acc(i)]
             row == IF key.kind = "none" THEN [agg |-> vals]
                    ELSE [key |-> K(rows[1]), agg |-> vals]
         IN  <<row>> \o MergeRows(SubSeq(rows, n + 1, Len(rows)), key, aggs, finalize)

aggregate_combined_blocks(blocks, key, aggs, finalize, exec_stats) ==
    LET merged == MergeSorted([i \in 1..Len(blocks) |-> blocks[i].rows], key)
        ret == [repr |-> blocks[1].repr, rows |-> MergeRows(merged, key, aggs, finalize)]
    IN  <<ret, get_metadata(ret, exec_stats)>>

\* ------------------------------------------------------------------ SortAggregateTaskSpec
Range(s) == {s[i] : i \in 1..Len(s)}

IsStr(x) == x \in Columns

\* Mutant: the loop over the aggregates adds no column.
PruneColumns_key_only(key, aggs) ==
    IF key.kind \in {"str", "list"} THEN Range(key.cols) ELSE {}

\* The columns collected by the two loops: the key's and the aggregates' _key_fn.
PruneColumns(key, aggs) ==
    (IF key.kind \in {"str", "list"} THEN Range(key.cols) ELSE {})
    \cup {aggs[i]._key_fn : i \in {j \in 1..Len(aggs) :
                                    aggs[j].cls = "AggregateOnKey" /\ IsStr(aggs[j]._key_fn)}}

\* Mutant: a callable key does not clear prune_columns.
PruneFlag_callable_key(key, aggs) ==
    \A i \in 1..Len(aggs) :
        \/ aggs[i].cls = "AggregateOnKey" /\ IsStr(aggs[i]._key_fn)
        \/ aggs[i].cls = "Count"

\* prune_columns after the two loops.
PruneFlag(key, aggs) ==
    /\ key.kind # "callable"
    /\ \A i \in 1..Len(aggs) :
           \/ aggs[i].cls = "AggregateOnKey" /\ IsStr(aggs[i]._key_fn)
           \/ aggs[i].cls = "Count"

_prune_unused_columns(block, key, aggs) ==
    LET prune_columns == PruneFlag(key, aggs)
        columns == PruneColumns(key, aggs)
    IN  IF prune_columns /\ block.repr \in TableReprs /\ num_rows(block) > 0
        THEN select(block, columns)
        ELSE block

\* Mutant: the partitions are returned in descending boundary order.
map_reversed(idx, block, output_num_blocks, boundaries, key, aggs, stats) ==
    LET pruned == _prune_unused_columns(block, key, aggs)
        partitions == IF key.kind = "none" THEN <<pruned>>
                      ELSE sort_and_partition(pruned, boundaries, key)
        n == Len(partitions)
        parts == [i \in 1..n |-> combine(partitions[n + 1 - i], key, aggs)]
        meta == get_metadata(pruned, stats)
    IN  parts \o <<meta>>

\* Mutant: the last partition is left out.
map_drop_last(idx, block, output_num_blocks, boundaries, key, aggs, stats) ==
    LET pruned == _prune_unused_columns(block, key, aggs)
        partitions == IF key.kind = "none" THEN <<pruned>>
                      ELSE sort_and_partition(pruned, boundaries, key)
        parts == [i \in 1..(Len(partitions) - 1) |-> combine(partitions[i], key, aggs)]
        meta == get_metadata(pruned, stats)
    IN  parts \o <<meta>>

\* Mutant: empty partitions are not emitted.
map_skip_empty(idx, block, output_num_blocks, boundaries, key, aggs, stats) ==
    LET pruned == _prune_unused_columns(block, key, aggs)
        partitions == IF key.kind = "none" THEN <<pruned>>
                      ELSE SelectSeq(sort_and_partition(pruned, boundaries, key),
                                     LAMBDA p : num_rows(p) > 0)
        parts == [i \in 1..Len(partitions) |-> combine(partitions[i], key, aggs)]
        meta == get_metadata(pruned, stats)
    IN  parts \o <<meta>>

\* Mutant: the block is partitioned by the boundaries also when the key is absent.
map_always_partition(idx, block, output_num_blocks, boundaries, key, aggs, stats) ==
    LET pruned == _prune_unused_columns(block, key, aggs)
        partitions == sort_and_partition(pruned, boundaries, key)
        parts == [i \in 1..Len(partitions) |-> combine(partitions[i], key, aggs)]
        meta == get_metadata(pruned, stats)
    IN  parts \o <<meta>>

\* Mutant: the elapsed time is written into the metadata's row count.
map_stats_as_rows(idx, block, output_num_blocks, boundaries, key, aggs, stats) ==
    LET pruned == _prune_unused_columns(block, key, aggs)
        partitions == IF key.kind = "none" THEN <<pruned>>
                      ELSE sort_and_partition(pruned, boundaries, key)
        parts == [i \in 1..Len(partitions) |-> combine(partitions[i], key, aggs)]
        meta == [get_metadata(pruned, stats) EXCEPT !.num_rows = stats]
    IN  parts \o <<meta>>

map(idx, block, output_num_blocks, boundaries, key, aggs, stats) ==
    LET pruned == _prune_unused_columns(block, key, aggs)
        partitions == IF key.kind = "none" THEN <<pruned>>
                      ELSE sort_and_partition(pruned, boundaries, key)
        parts == [i \in 1..Len(partitions) |-> combine(partitions[i], key, aggs)]
        meta == get_metadata(pruned, stats)
    IN  parts \o <<meta>>

\* Mutant: finalize is passed as partial_reduce, not as its negation.
reduce_flag_inverted(key, aggs, batch_format, mapper_outputs, partial_reduce, stats) ==
    LET normalized_blocks == normalize_block_types(mapper_outputs, batch_format)
    IN  aggregate_combined_blocks(normalized_blocks, key, aggs, partial_reduce, stats)

\* Mutant: the first block picks the accessor and its rows are left out of the merge.
reduce_drop_first(key, aggs, batch_format, mapper_outputs, partial_reduce, stats) ==
    LET normalized_blocks == normalize_block_types(mapper_outputs, batch_format)
    IN  aggregate_combined_blocks([normalized_blocks EXCEPT ![1].rows = <<>>],
                                  key, aggs, ~partial_reduce, stats)

reduce(key, aggs, batch_format, mapper_outputs, partial_reduce, stats) ==
    LET normalized_blocks == normalize_block_types(mapper_outputs, batch_format)
    IN  aggregate_combined_blocks(normalized_blocks, key, aggs, ~partial_reduce, stats)

\* ------------------------------------------------------------------ state
VARIABLES
    map_args,      \* <<boundaries, key, aggs>>, set by __init__
    reduce_args,   \* <<key, aggs, batch_format>>, set by __init__
    inputs,        \* the blocks handed to the map tasks of the plan
    pruned,        \* per map task, the block after _prune_unused_columns
    mapOuts,       \* per map task, what map returned; <<>> once shuffled
    range,         \* the partition the merge-reduce task works on, 0 before the shuffle
    pending,       \* that task's mapper_outputs: the blocks still to be reduced
    redOut,        \* what reduce(partial_reduce=False) returned, <<>> before
    retried        \* the kinds of task re-executed in this stage after a worker failure

vars == <<map_args, reduce_args, inputs, pruned, mapOuts, range, pending, redOut, retried>>

boundaries == map_args[1]
key == map_args[2]
aggs == map_args[3]
batch_format == reduce_args[3]

Parts(out) == SubSeq(out, 1, Len(out) - 1)
Meta(out) == out[Len(out)]

IsTable(block) == block.repr \in TableReprs

Init ==
    /\ \E k \in GroupKeys, as \in AggLists, fmt \in BatchFormats :
           \E bs \in BoundaryLists(k) :
               /\ map_args = <<bs, k, as>>
               /\ reduce_args = <<k, as, fmt>>
    /\ inputs = <<>>
    /\ pruned = <<>>
    /\ mapOuts = <<>>
    /\ range = 0
    /\ pending = <<>>
    /\ redOut = <<>>
    /\ retried = {}

\* One map task: the scheduler hands it the next block of the dataset.  The blocks
\* of a dataset are all tabular or all simple.
MapTask ==
    /\ range = 0
    /\ Len(inputs) < MaxTasks
    /\ \E block \in InputBlocks, stats \in 0..MaxClock :
           /\ IF inputs = <<>> THEN TRUE ELSE IsTable(block) = IsTable(inputs[1])
           /\ inputs' = Append(inputs, block)
           /\ pruned' = Append(pruned, _prune_unused_columns(block, key, aggs))
           /\ mapOuts' = Append(mapOuts,
                                map(Len(inputs), block, Len(boundaries) + 1,
                                    boundaries, key, aggs, stats))
    /\ UNCHANGED <<map_args, reduce_args, range, pending, redOut, retried>>

\* The shuffle, once every map task of the plan has returned: partition i of every
\* map output goes to the merge-reduce task of range i.
Shuffle ==
    /\ range = 0
    /\ mapOuts # <<>>
    /\ \E i \in 1..Len(Parts(mapOuts[1])) :
           /\ range' = i
           /\ pending' = [t \in 1..Len(mapOuts) |-> mapOuts[t][i]]
    /\ mapOuts' = <<>>
    /\ pruned' = <<>>
    /\ retried' = {}
    /\ UNCHANGED <<map_args, reduce_args, inputs, redOut>>

\* A tree-reduction stage: reduce(partial_reduce=True) over two or more adjacent
\* blocks, whose result takes their place.
PartialReduce ==
    /\ range # 0
    /\ redOut = <<>>
    /\ \E j \in 1..Len(pending), stats \in 0..MaxClock :
           \E k \in (j + 1)..Len(pending) :
               LET out == reduce(reduce_args[1], reduce_args[2], reduce_args[3],
                                 SubSeq(pending, j, k), TRUE, stats)
               IN  pending' = SubSeq(pending, 1, j - 1) \o <<out[1]>>
                                  \o SubSeq(pending, k + 1, Len(pending))
    /\ UNCHANGED <<map_args, reduce_args, inputs, pruned, mapOuts, range, redOut, retried>>

\* The final stage: reduce(partial_reduce=False) over the blocks that are left.
FinalReduce ==
    /\ range # 0
    /\ redOut = <<>>
    /\ \E stats \in 0..MaxClock :
           redOut' = reduce(reduce_args[1], reduce_args[2], reduce_args[3],
                            pending, FALSE, stats)
    /\ UNCHANGED <<map_args, reduce_args, inputs, pruned, mapOuts, range, pending, retried>>

\* A map task is executed again after a worker failure, on the same inputs.
RetryMap ==
    /\ range = 0
    /\ "map" \notin retried
    /\ \E t \in 1..Len(inputs), stats \in 0..MaxClock :
           mapOuts' = [mapOuts EXCEPT ![t] = map(t - 1, inputs[t], Len(boundaries) + 1,
                                                  boundaries, key, aggs, stats)]
    /\ retried' = retried \cup {"map"}
    /\ UNCHANGED <<map_args, reduce_args, inputs, pruned, range, pending, redOut>>

\* The final reduce task is executed again after a worker failure, on the same inputs.
RetryReduce ==
    /\ redOut # <<>>
    /\ "reduce" \notin retried
    /\ \E stats \in 0..MaxClock :
           redOut' = reduce(reduce_args[1], reduce_args[2], reduce_args[3],
                            pending, FALSE, stats)
    /\ retried' = retried \cup {"reduce"}
    /\ UNCHANGED <<map_args, reduce_args, inputs, pruned, mapOuts, range, pending>>

Next ==
    \/ MapTask
    \/ Shuffle
    \/ PartialReduce
    \/ FinalReduce

Spec == Init /\ [][Next]_vars

NextRetry ==
    \/ MapTask
    \/ RetryMap
    \/ Shuffle
    \/ FinalReduce
    \/ RetryReduce

SpecRetry == Init /\ [][NextRetry]_vars

\* ------------------------------------------------------------------ properties
RowsOf(blocks) == UNION {Range(blocks[i].rows) : i \in 1..Len(blocks)}

RECURSIVE Concat(_)
Concat(seqs) == IF seqs = <<>> THEN <<>> ELSE seqs[1] \o Concat(Tail(seqs))

\* Every raw row handed to the map tasks of the plan, in task order.
RawRows == Concat([t \in 1..Len(inputs) |-> inputs[t].rows])

\* The keys of the partial-aggregate rows of a block; a row of a plan without key
\* carries none.
KeysIn(block) == {r.key : r \in {x \in Range(block.rows) : "key" \in DOMAIN x}}

\* The distinct keys of the rows of an input block.
InputKeys(block) ==
    IF key.kind = "none" THEN {} ELSE {KeyOf(r, key) : r \in Range(block.rows)}

StrictlySorted(block) ==
    \A i \in 1..(Len(block.rows) - 1) :
        LexLess(MergeKey(block.rows[i], key), MergeKey(block.rows[i + 1], key))

\* The finalized values of the rows with key k, all combined in one pass.
SinglePass(k) ==
    [i \in 1..Len(aggs) |->
        AggFinalize(aggs[i],
                    AccumulateRows(aggs[i], AggInit(aggs[i]),
                                   SelectSeq(RawRows, LAMBDA r : KeyOf(r, key) = k)))]

\* C1: a final reduce, also after partial reduce stages, gives every key the
\* finalized values that combining all the raw rows of that key in one pass gives.
Thm_C1 ==
    redOut # <<>> =>
        /\ \A r \in Range(redOut[1].rows) : r.agg = SinglePass(MergeKey(r, key))
        /\ key.kind # "none" =>
               KeysIn(redOut[1]) = {k \in {KeyOf(r, key) : r \in Range(RawRows)} :
                                       InPartition(range, k, boundaries)}

\* A final result after a partial stage merged two map outputs that both held rows
\* of the same key, under a mean.
Wit_C1 ==
    /\ redOut # <<>>
    /\ Len(inputs) = 2
    /\ Len(pending) = 1
    /\ \E i \in 1..Len(aggs) : aggs[i].op = "mean"
    /\ \E r \in Range(redOut[1].rows) :
           /\ \E x \in Range(inputs[1].rows) : KeyOf(x, key) = MergeKey(r, key)
           /\ \E y \in Range(inputs[2].rows) : KeyOf(y, key) = MergeKey(r, key)

\* C2: the keys of the partitions map returns are together the keys of the pruned
\* input block, and no key is in two partitions.
Thm_C2 ==
    \A t \in 1..Len(mapOuts) :
        LET parts == Parts(mapOuts[t])
        IN  /\ UNION {KeysIn(parts[i]) : i \in 1..Len(parts)} = InputKeys(pruned[t])
            /\ \A i, j \in 1..Len(parts) :
                   i # j => KeysIn(parts[i]) \cap KeysIn(parts[j]) = {}

\* A map task whose block had two keys, which went to different partitions.
Wit_C2 ==
    \E t \in 1..Len(mapOuts) :
        /\ Cardinality(InputKeys(pruned[t])) = 2
        /\ \E i, j \in 1..Len(Parts(mapOuts[t])) :
               /\ i # j
               /\ KeysIn(mapOuts[t][i]) # {}
               /\ KeysIn(mapOuts[t][j]) # {}

\* C3: with a key, every key of partition i is above boundary i-1 and at most
\* boundary i.
Thm_C3 ==
    key.kind # "none" =>
        \A t \in 1..Len(mapOuts) :
            \A i \in 1..Len(Parts(mapOuts[t])) :
                \A k \in KeysIn(mapOuts[t][i]) :
                    /\ i > 1 => LexLess(boundaries[i - 1], k)
                    /\ i <= Len(boundaries) => LexLeq(k, boundaries[i])

\* A map task with two distinct boundaries whose middle partition holds a key equal to
\* its upper boundary and whose last partition holds a key too.
Wit_C3 ==
    /\ key.kind # "none"
    /\ Len(boundaries) = 2
    /\ boundaries[1] # boundaries[2]
    /\ \E t \in 1..Len(mapOuts) :
           /\ boundaries[2] \in KeysIn(mapOuts[t][2])
           /\ KeysIn(mapOuts[t][3]) # {}

IsBlock(x) == DOMAIN x = {"repr", "rows"}
IsMetadata(x) == DOMAIN x = {"num_rows", "size_bytes", "exec_stats"}

NumPartitions == IF key.kind = "none" THEN 1 ELSE Len(boundaries) + 1

\* C4: map returns NumPartitions blocks, in ascending key order, then one metadata;
\* empty partitions are blocks too.
Thm_C4 ==
    \A t \in 1..Len(mapOuts) :
        /\ Len(mapOuts[t]) = NumPartitions + 1
        /\ IsMetadata(mapOuts[t][NumPartitions + 1])
        /\ \A i \in 1..NumPartitions : IsBlock(mapOuts[t][i])
        /\ \A i, j \in 1..NumPartitions :
               i < j => \A x \in KeysIn(mapOuts[t][i]), y \in KeysIn(mapOuts[t][j]) :
                            LexLess(x, y)

\* Two map tasks of a plan with three partitions: one filled the first partition
\* only, the other the last only.
Wit_C4 ==
    /\ Len(mapOuts) = 2
    /\ NumPartitions = 3
    /\ mapOuts[1][1].rows # <<>> /\ mapOuts[1][2].rows = <<>> /\ mapOuts[1][3].rows = <<>>
    /\ mapOuts[2][1].rows = <<>> /\ mapOuts[2][3].rows # <<>>

SameButStats(m, n) == m.num_rows = n.num_rows /\ m.size_bytes = n.size_bytes

Finalized(block) ==
    [n \in 1..Len(block.rows) |->
        [block.rows[n] EXCEPT !.agg = [i \in 1..Len(aggs) |-> AggFinalize(aggs[i], @[i])]]]

\* What map's partitions would be had the block not been pruned.
UnprunedParts(block) ==
    LET partitions == IF key.kind = "none" THEN <<block>>
                      ELSE sort_and_partition(block, boundaries, key)
    IN  [i \in 1..Len(partitions) |-> combine(partitions[i], key, aggs)]

\* C6: the partitions aggregated from the pruned block have the finalized values of
\* the partitions aggregated from the block as it was handed in.
Thm_C6 ==
    \A t \in 1..Len(mapOuts) :
        LET unpruned == UnprunedParts(inputs[t])
        IN  /\ Len(Parts(mapOuts[t])) = Len(unpruned)
            /\ \A i \in 1..Len(unpruned) :
                   Finalized(mapOuts[t][i]) = Finalized(unpruned[i])

\* Without key and with Count alone every column is pruned; and a task under a key and
\* aggregates over columns whose block lost a column.
Wit_C6 ==
    \E t \in 1..Len(mapOuts) :
        /\ pruned[t] # inputs[t]
        /\ num_rows(inputs[t]) = 2
        /\ \/ key.kind = "none" /\ aggs = <<Count>>
           \/ key.kind = "str" /\ Len(aggs) = 3

\* C7: without key, map returns one partition and the metadata, and the final reduce
\* returns one row.
Thm_C7 ==
    key.kind = "none" =>
        /\ \A t \in 1..Len(mapOuts) :
               /\ Len(mapOuts[t]) = 2
               /\ IsBlock(mapOuts[t][1])
               /\ IsMetadata(mapOuts[t][2])
        /\ redOut # <<>> => Len(redOut[1].rows) = 1

\* Without key and with boundaries, the final reduce over the outputs of two map
\* tasks, one of them of an empty block.
Wit_C7 ==
    /\ key.kind = "none"
    /\ boundaries # <<>>
    /\ redOut # <<>>
    /\ Len(pending) = 2
    /\ inputs[1].rows = <<>>
    /\ inputs[2].rows # <<>>

\* The partial states, in block order, of the rows with key k of the pending blocks.
StatesOf(k, i) ==
    LET rows == SelectSeq(Concat([b \in 1..Len(pending) |-> pending[b].rows]),
                          LAMBDA r : MergeKey(r, key) = k)
    IN  [n \in 1..Len(rows) |-> rows[n].agg[i]]

\* C8: the blocks handed to reduce are sorted by key with one row per key, and so is
\* the block the final reduce returns; its keys are the keys of those blocks, and each
\* row holds the merged states of the rows of its key.
Thm_C8 ==
    /\ \A b \in 1..Len(pending) : StrictlySorted(pending[b])
    /\ redOut # <<>> =>
           /\ StrictlySorted(redOut[1])
           /\ {MergeKey(r, key) : r \in Range(redOut[1].rows)}
                  = {MergeKey(r, key) : r \in RowsOf(pending)}
           /\ key.kind # "none" => KeysIn(redOut[1]) = UNION {KeysIn(pending[b]) : b \in 1..Len(pending)}
           /\ \A r \in Range(redOut[1].rows) :
                  \A i \in 1..Len(aggs) :
                      LET states == StatesOf(MergeKey(r, key), i)
                      IN  r.agg[i] = AggFinalize(aggs[i],
                                                 MergeStates(aggs[i], states[1], Tail(states)))

\* A final reduce over two blocks that share a key and each hold a key of their own.
Wit_C8 ==
    /\ redOut # <<>>
    /\ Len(pending) = 2
    /\ KeysIn(pending[1]) \cap KeysIn(pending[2]) # {}
    /\ KeysIn(pending[1]) \ KeysIn(pending[2]) # {}
    /\ KeysIn(pending[2]) \ KeysIn(pending[1]) # {}

\* C9 as claimed: the metadata map returns has the row count and the size of the
\* block handed to map.
Orig_C9 ==
    \A t \in 1..Len(mapOuts) :
        /\ Meta(mapOuts[t]).num_rows = num_rows(inputs[t])
        /\ Meta(mapOuts[t]).size_bytes = size_bytes(inputs[t])

\* The columns the claim calls needed: the key's and every plain accessor's.
Needed ==
    (IF key.kind \in {"str", "list"} THEN Range(key.cols) ELSE {})
    \cup {aggs[i]._key_fn : i \in {j \in 1..Len(aggs) : IsStr(aggs[j]._key_fn)}}

\* C10 as claimed: the block is projected if and only if the key is no function,
\* every aggregate has a plain column accessor or reads no column, the block has rows
\* and it is a table.
Orig_C10 ==
    \A t \in 1..Len(pruned) :
        LET eligible ==
                /\ key.kind # "callable"
                /\ \A i \in 1..Len(aggs) :
                       IsStr(aggs[i]._key_fn) \/ aggs[i].reads = "<none>"
                /\ num_rows(inputs[t]) > 0
                /\ IsTable(inputs[t])
        IN  pruned[t] = IF eligible THEN select(inputs[t], Needed) ELSE inputs[t]

\* C10, amended: ... every aggregate has a plain column accessor or is the built-in
\* Count ...
Thm_C10 ==
    \A t \in 1..Len(pruned) :
        LET eligible ==
                /\ key.kind # "callable"
                /\ \A i \in 1..Len(aggs) :
                       \/ aggs[i].cls = "AggregateOnKey" /\ IsStr(aggs[i]._key_fn)
                       \/ aggs[i].cls = "Count"
                /\ num_rows(inputs[t]) > 0
                /\ IsTable(inputs[t])
        IN  pruned[t] = IF eligible THEN select(inputs[t], Needed) ELSE inputs[t]

\* One task whose block was projected, and, in another plan, a table block with rows
\* left whole under a callable key.
Wit_C10 ==
    \E t \in 1..Len(pruned) :
        /\ IsTable(inputs[t])
        /\ num_rows(inputs[t]) > 0
        /\ \/ pruned[t] # inputs[t] /\ key.kind = "list"
           \/ pruned[t] = inputs[t] /\ key.kind = "callable" /\ aggs = <<Count>>

====
